---- MODULE Spec2Model ----
(***************************************************************************)
(* Model of src/src/datastructures/b_tree.py: BTreeNode and BTree.         *)
(*                                                                         *)
(* A node is the record [keys, children]; children holds the child nodes   *)
(* themselves, so the tree under a node is one value.  The code never      *)
(* shares a node between two parents and keeps no parent pointers, so a    *)
(* node reference is modelled by its location: the sequence of 0-based     *)
(* child indices leading to it from the root.  An Optional[BTreeNode] is a *)
(* sequence of length 0 (None) or 1.  Indices are 0-based as in the code;  *)
(* a sequence s of the code is read at index i as s[i + 1].                *)
(***************************************************************************)
EXTENDS Integers, Sequences, FiniteSets, TLC

\* ---------------------------------------------------------------- bounds
\* the smallest order a tree is built with
MinOrder == 3
\* orders MinOrder..MaxOrder, keys 1..MaxKey
MaxOrder == 4
MaxKey == 7
\* the loaded trees hold the keys 1..n for n <= MaxLoad, and take MaxEdits calls
MaxLoad == 9
MaxEdits == 2

\* the scenario trees have an order up to MaxScenarioOrder and are filled with
\* up to MaxScenarioLoad keys
MaxScenarioOrder == 7
MaxScenarioLoad == 26

Orders == MinOrder..MaxOrder
ScenarioOrders == MinOrder..MaxScenarioOrder
ScenarioKeys == 1..(2 * MaxScenarioLoad + 1)
Keys == 1..MaxKey
LoadedKeys == 1..(MaxLoad + 1)

\* order, root: the fields of the BTree
\* present: the keys the caller has inserted and not removed
\* lastOp, lastKey, outcome: the last call, its argument, what it returned or raised
\* repairs: the repair steps the last call made, in order
\* budget: the calls left to a caller that makes a bounded number of them
VARIABLES order, root, present, lastOp, lastKey, outcome, repairs, budget

vars == <<order, root, present, lastOp, lastKey, outcome, repairs, budget>>

\* ------------------------------------------------------- python helpers
\* s[a:b] for 0 <= a, 0 <= b
Slice(s, a, b) == SubSeq(s, a + 1, IF b < Len(s) THEN b ELSE Len(s))

\* s[a:]
SliceFrom(s, a) == SubSeq(s, a + 1, Len(s))

\* list.insert(idx, x) for 0 <= idx <= len
ListInsert(s, idx, x) == Slice(s, 0, idx) \o <<x>> \o SliceFrom(s, idx)

\* del s[idx] / s.pop(idx)
ListDel(s, idx) == Slice(s, 0, idx) \o SliceFrom(s, idx + 1)

\* s[idx] = x
ListSet(s, idx, x) == [s EXCEPT ![idx + 1] = x]

None == << >>

\* the key None, which is no key of Keys
NoKey == 0

\* a test for None that lets every key through
is_none_never(key) == FALSE

\* key is None
is_none(key) == key = NoKey

\* ------------------------------------------------------------ BTreeNode
BTreeNode(keys, children) == [keys |-> keys, children |-> children]

is_leaf(node) == Len(node.children) = 0

is_internal(node) == ~is_leaf(node)

\* an insert_key that ignores idx and appends the key
insert_key_appends(node, idx, key) == [node EXCEPT !.keys = Append(node.keys, key)]

insert_key(node, idx, key) == [node EXCEPT !.keys = ListInsert(node.keys, idx, key)]

RECURSIVE traverse_inorder(_)
RECURSIVE traverse_keys_from(_, _)
RECURSIVE traverse_key_before_child(_, _)
\* a traversal that yields a key before the child to its left
traverse_key_before_child(node, i) ==
    IF i < Len(node.keys)
    THEN <<node.keys[i + 1]>>
         \o (IF is_internal(node) THEN traverse_inorder(node.children[i + 1]) ELSE << >>)
         \o traverse_key_before_child(node, i + 1)
    ELSE IF is_internal(node)
         THEN traverse_inorder(node.children[Len(node.children)])
         ELSE << >>

\* the for loop of traverse_inorder from key index i on, then the last child
traverse_keys_from(node, i) ==
    IF i < Len(node.keys)
    THEN (IF is_internal(node) THEN traverse_inorder(node.children[i + 1]) ELSE << >>)
         \o <<node.keys[i + 1]>>
         \o traverse_keys_from(node, i + 1)
    ELSE IF is_internal(node)
         THEN traverse_inorder(node.children[Len(node.children)])
         ELSE << >>

traverse_inorder(node) == traverse_keys_from(node, 0)

\* BTree.traverse_inorder
tree_traverse_inorder(rt) == IF rt # None THEN traverse_inorder(rt[1]) ELSE << >>

\* ---------------------------------------------------- node references
RECURSIVE NodeAt(_, _)
\* the node reached from node by following the child indices loc
NodeAt(node, loc) ==
    IF loc = << >> THEN node
    ELSE NodeAt(node.children[Head(loc) + 1], Tail(loc))

RECURSIVE SetAt(_, _, _)
\* the tree under node after the node at loc was mutated into new
SetAt(node, loc, new) ==
    IF loc = << >> THEN new
    ELSE [node EXCEPT !.children[Head(loc) + 1] = SetAt(@, Tail(loc), new)]

\* ----------------------------------------------------- key index scan
RECURSIVE key_scan(_, _, _)
\* the inner while loop shared by search, insert and remove
key_scan(keys, key, idx) ==
    IF idx < Len(keys) /\ key > keys[idx + 1]
    THEN key_scan(keys, key, idx + 1)
    ELSE idx

\* --------------------------------------------------------------- search
Found(loc) == [kind |-> "node", path |-> loc]
Raised(exc) == [kind |-> exc, path |-> << >>]
Returned(what) == [kind |-> what, path |-> << >>]

RECURSIVE search_skips_equal(_, _, _)
\* a search whose scan also passes a key equal to the target
search_skips_equal(curr_node, target, loc) ==
    LET curr_key_idx == key_scan(curr_node.keys, target + 1, 0) IN
    IF curr_key_idx # Len(curr_node.keys) /\ target = curr_node.keys[curr_key_idx + 1]
    THEN Found(loc)
    ELSE IF curr_key_idx < Len(curr_node.children)
         THEN search_skips_equal(curr_node.children[curr_key_idx + 1], target,
                                 Append(loc, curr_key_idx))
         ELSE Raised("IndexError")

RECURSIVE search_from(_, _, _)
search_from(curr_node, target, loc) ==
    LET curr_key_idx == key_scan(curr_node.keys, target, 0) IN
    IF curr_key_idx # Len(curr_node.keys) /\ target = curr_node.keys[curr_key_idx + 1]
    THEN Found(loc)
    ELSE IF curr_key_idx < Len(curr_node.children)
         THEN search_from(curr_node.children[curr_key_idx + 1], target,
                          Append(loc, curr_key_idx))
         ELSE Raised("IndexError")

search(rt, target) ==
    IF is_none(target) THEN Raised("ValueError")
    ELSE IF rt = None THEN Returned("None")
    ELSE search_from(rt[1], target, << >>)

\* --------------------------------------------------------------- insert
RECURSIVE insert_path(_, _, _)
\* the descent loop of insert: the child index chosen at every node from the
\* root to the leaf (the last one is the key's position in the leaf)
insert_path(curr_node, key, path) ==
    LET curr_key_idx == key_scan(curr_node.keys, key, 0) IN
    IF is_leaf(curr_node)
    THEN Append(path, curr_key_idx)
    ELSE insert_path(curr_node.children[curr_key_idx + 1], key,
                     Append(path, curr_key_idx))

\* a midpoint taken at order // 2
mid_key_idx_half(ord) == ord \div 2

mid_key_idx(ord) == (ord - 1) \div 2

\* an overflow test that splits a node holding order - 1 keys
overflowing_at_full(ord, node) == ~(Len(node.keys) <= ord - 2)

\* an overflow test that lets a node keep order keys
overflowing_above_order(ord, node) == ~(Len(node.keys) <= ord)

overflowing(ord, node) == ~(Len(node.keys) <= ord - 1)

left_node(ord, curr_node) ==
    BTreeNode(Slice(curr_node.keys, 0, mid_key_idx(ord)),
              Slice(curr_node.children, 0, mid_key_idx(ord) + 1))

\* a right half that keeps the promoted key
right_node_from_mid(ord, curr_node) ==
    BTreeNode(SliceFrom(curr_node.keys, mid_key_idx(ord)),
              SliceFrom(curr_node.children, mid_key_idx(ord) + 1))

right_node(ord, curr_node) ==
    BTreeNode(SliceFrom(curr_node.keys, mid_key_idx(ord) + 1),
              SliceFrom(curr_node.children, mid_key_idx(ord) + 1))

\* the root split: a new root over the two halves
split_root(ord, curr_node) ==
    BTreeNode(<<curr_node.keys[mid_key_idx(ord) + 1]>>,
              <<left_node(ord, curr_node), right_node(ord, curr_node)>>)

\* a split that hangs the two halves under a new node in the child's place
split_child_in_place(ord, parent, idx_node_as_child) ==
    [parent EXCEPT !.children =
        ListSet(@, idx_node_as_child,
                split_root(ord, parent.children[idx_node_as_child + 1]))]

\* the parent after its child at idx_node_as_child was split
split_child(ord, parent, idx_node_as_child) ==
    LET curr_node == parent.children[idx_node_as_child + 1]
        promoted == insert_key(parent, idx_node_as_child,
                               curr_node.keys[mid_key_idx(ord) + 1])
    IN [promoted EXCEPT !.children =
            ListInsert(ListSet(@, idx_node_as_child, left_node(ord, curr_node)),
                       idx_node_as_child + 1, right_node(ord, curr_node))]

Done(t, steps) == [root |-> <<t>>, kind |-> "ok", steps |-> steps]
Fail(rt, exc) == [root |-> rt, kind |-> exc, steps |-> << >>]

RECURSIVE fix_insert(_, _, _, _, _)
\* t is the tree under the root; the node at position i of the path is at
\* location path[0:i]; steps lists the repairs made so far
fix_insert(ord, t, path, node_idx_in_path, steps) ==
    IF node_idx_in_path < 0 THEN Done(t, steps)
    ELSE LET curr_node == NodeAt(t, Slice(path, 0, node_idx_in_path)) IN
         IF ~overflowing(ord, curr_node) THEN Done(t, steps)
         ELSE IF node_idx_in_path = 0
         THEN Done(split_root(ord, curr_node), Append(steps, "split_root"))
         ELSE LET parent_loc == Slice(path, 0, node_idx_in_path - 1)
                  idx_node_as_child == path[node_idx_in_path]
              IN fix_insert(ord,
                            SetAt(t, parent_loc,
                                  split_child(ord, NodeAt(t, parent_loc), idx_node_as_child)),
                            path, node_idx_in_path - 1, Append(steps, "split"))

insert(ord, rt, key) ==
    IF is_none(key) THEN Fail(rt, "ValueError")
    ELSE IF rt = None THEN Done(BTreeNode(<<key>>, << >>), << >>)
    ELSE LET path == insert_path(rt[1], key, << >>)
             leaf_loc == Slice(path, 0, Len(path) - 1)
             leaf_key_idx == path[Len(path)]
             leaf == NodeAt(rt[1], leaf_loc)
         IN fix_insert(ord, SetAt(rt[1], leaf_loc, insert_key(leaf, leaf_key_idx, key)),
                       path, Len(path) - 1, << >>)

\* --------------------------------------------------------------- remove
\* the child index recorded for the root in remove's path
NoIdx == -1

RECURSIVE remove_path_any_key(_, _, _)
\* a descent that takes the key the scan stops at for the key to remove
remove_path_any_key(target_node, key, path) ==
    LET target_node_key_idx == key_scan(target_node.keys, key, 0) IN
    IF target_node_key_idx < Len(target_node.keys)
    THEN [found |-> TRUE, path |-> path, key_idx |-> target_node_key_idx]
    ELSE IF is_internal(target_node)
         THEN remove_path_any_key(target_node.children[target_node_key_idx + 1], key,
                                  Append(path, target_node_key_idx))
         ELSE [found |-> FALSE, path |-> Append(path, target_node_key_idx),
               key_idx |-> target_node_key_idx]

RECURSIVE remove_path(_, _, _)
\* the descent loop of remove; path holds, for every node visited, its index
\* in its parent's children
remove_path(target_node, key, path) ==
    LET target_node_key_idx == key_scan(target_node.keys, key, 0) IN
    IF target_node_key_idx < Len(target_node.keys)
       /\ key = target_node.keys[target_node_key_idx + 1]
    THEN [found |-> TRUE, path |-> path, key_idx |-> target_node_key_idx]
    ELSE IF is_internal(target_node)
         THEN remove_path(target_node.children[target_node_key_idx + 1], key,
                          Append(path, target_node_key_idx))
         ELSE [found |-> FALSE, path |-> Append(path, target_node_key_idx),
               key_idx |-> target_node_key_idx]

RECURSIVE successor_path_rightmost(_, _)
\* a walk to the rightmost leaf under leaf
successor_path_rightmost(leaf, path) ==
    IF is_internal(leaf)
    THEN successor_path_rightmost(leaf.children[Len(leaf.children)],
                                  Append(path, Len(leaf.children) - 1))
    ELSE path

RECURSIVE successor_path(_, _)
\* the walk to the leftmost leaf under leaf, extending path
successor_path(leaf, path) ==
    IF is_internal(leaf) THEN successor_path(leaf.children[1], Append(path, 0))
    ELSE path

min_keys(ord) == (ord - 1) \div 2

\* an underflow test that tolerates one key less than the minimum
is_node_underflowing_late(ord, is_root, node) ==
    IF is_root THEN FALSE ELSE Len(node.keys) < min_keys(ord) - 1

is_node_underflowing(ord, is_root, node) ==
    IF is_root THEN FALSE ELSE Len(node.keys) < min_keys(ord)

\* a populous test that a node with just the minimum of keys passes
is_node_populous_at_min(ord, is_root, node) ==
    IF is_root THEN FALSE ELSE Len(node.keys) >= min_keys(ord)

is_node_populous(ord, is_root, node) ==
    IF is_root THEN FALSE ELSE Len(node.keys) >= min_keys(ord) + 1

\* a redistribution that leaves the separator in the parent as it was
redistribute_old_separator(parent, a_idx) ==
    LET a == parent.children[a_idx + 1]
        b == parent.children[a_idx + 2]
        merged_keys == a.keys \o <<parent.keys[a_idx + 1]>> \o b.keys
        merged_children == a.children \o b.children
        merged_keys_mid_idx == Len(merged_keys) \div 2
    IN [keys |-> parent.keys,
        children |->
            ListSet(ListSet(parent.children, a_idx,
                            BTreeNode(Slice(merged_keys, 0, merged_keys_mid_idx),
                                      Slice(merged_children, 0, merged_keys_mid_idx + 1))),
                    a_idx + 1,
                    BTreeNode(SliceFrom(merged_keys, merged_keys_mid_idx + 1),
                              SliceFrom(merged_children, merged_keys_mid_idx + 1)))]

\* a redistribution that cuts the children where it cuts the keys
redistribute_children_at_mid(parent, a_idx) ==
    LET a == parent.children[a_idx + 1]
        b == parent.children[a_idx + 2]
        merged_keys == a.keys \o <<parent.keys[a_idx + 1]>> \o b.keys
        merged_children == a.children \o b.children
        merged_keys_mid_idx == Len(merged_keys) \div 2
    IN [keys |-> ListSet(parent.keys, a_idx, merged_keys[merged_keys_mid_idx + 1]),
        children |->
            ListSet(ListSet(parent.children, a_idx,
                            BTreeNode(Slice(merged_keys, 0, merged_keys_mid_idx),
                                      Slice(merged_children, 0, merged_keys_mid_idx))),
                    a_idx + 1,
                    BTreeNode(SliceFrom(merged_keys, merged_keys_mid_idx + 1),
                              SliceFrom(merged_children, merged_keys_mid_idx)))]

\* a redistribution that cuts the merged keys at (len - 1) // 2
redistribute_low_mid(parent, a_idx) ==
    LET a == parent.children[a_idx + 1]
        b == parent.children[a_idx + 2]
        merged_keys == a.keys \o <<parent.keys[a_idx + 1]>> \o b.keys
        merged_children == a.children \o b.children
        merged_keys_mid_idx == (Len(merged_keys) - 1) \div 2
    IN [keys |-> ListSet(parent.keys, a_idx, merged_keys[merged_keys_mid_idx + 1]),
        children |->
            ListSet(ListSet(parent.children, a_idx,
                            BTreeNode(Slice(merged_keys, 0, merged_keys_mid_idx),
                                      Slice(merged_children, 0, merged_keys_mid_idx + 1))),
                    a_idx + 1,
                    BTreeNode(SliceFrom(merged_keys, merged_keys_mid_idx + 1),
                              SliceFrom(merged_children, merged_keys_mid_idx + 1)))]

\* the parent after its children a_idx and a_idx + 1 shared their keys, the
\* separator parent.keys[a_idx] and their children evenly
redistribute(parent, a_idx) ==
    LET a == parent.children[a_idx + 1]
        b == parent.children[a_idx + 2]
        merged_keys == a.keys \o <<parent.keys[a_idx + 1]>> \o b.keys
        merged_children == a.children \o b.children
        merged_keys_mid_idx == Len(merged_keys) \div 2
    IN [keys |-> ListSet(parent.keys, a_idx, merged_keys[merged_keys_mid_idx + 1]),
        children |->
            ListSet(ListSet(parent.children, a_idx,
                            BTreeNode(Slice(merged_keys, 0, merged_keys_mid_idx),
                                      Slice(merged_children, 0, merged_keys_mid_idx + 1))),
                    a_idx + 1,
                    BTreeNode(SliceFrom(merged_keys, merged_keys_mid_idx + 1),
                              SliceFrom(merged_children, merged_keys_mid_idx + 1)))]

\* the parent after its child a_idx absorbed the separator parent.keys[a_idx]
\* and the child a_idx + 1
merge(parent, a_idx) ==
    LET a == parent.children[a_idx + 1]
        b == parent.children[a_idx + 2]
        merged_node == BTreeNode(a.keys \o <<parent.keys[a_idx + 1]>> \o b.keys,
                                 a.children \o b.children)
    IN [keys |-> ListDel(parent.keys, a_idx),
        children |-> ListSet(ListDel(parent.children, a_idx + 1), a_idx, merged_node)]

\* a choice of the sibling to merge with that takes the left one when there is one
merges_with_left_if_any(curr_node_child_idx, last_idx) == curr_node_child_idx # 0

\* case 1 of the merge: the node is the last child of its parent
merges_with_left(curr_node_child_idx, last_idx) == curr_node_child_idx = last_idx

RECURSIVE fix_remove(_, _, _, _, _)
\* t is the tree under the root; the node at position i of the path is at
\* location path[1:i+1]; steps lists the repairs made so far
fix_remove(ord, t, path, curr_node_idx_in_path, steps) ==
    IF curr_node_idx_in_path < 0 THEN Done(t, steps)
    ELSE
    LET curr_node == NodeAt(t, Slice(path, 1, curr_node_idx_in_path + 1))
        curr_node_child_idx == path[curr_node_idx_in_path + 1]
        is_root == curr_node_idx_in_path = 0
    IN
    IF is_root /\ Len(curr_node.children) = 1
    THEN Done(curr_node.children[1], Append(steps, "collapse"))
    ELSE IF ~is_node_underflowing(ord, is_root, curr_node) THEN Done(t, steps)
    ELSE
    LET parent_loc == Slice(path, 1, curr_node_idx_in_path)
        parent_curr_node == NodeAt(t, parent_loc)
        last_idx == Len(parent_curr_node.children) - 1
    IN
    IF curr_node_child_idx # 0
       /\ is_node_populous(ord, FALSE, parent_curr_node.children[curr_node_child_idx])
    THEN Done(SetAt(t, parent_loc, redistribute(parent_curr_node, curr_node_child_idx - 1)),
              Append(steps, "borrow_left"))
    ELSE IF curr_node_child_idx # last_idx
            /\ is_node_populous(ord, FALSE, parent_curr_node.children[curr_node_child_idx + 2])
    THEN Done(SetAt(t, parent_loc, redistribute(parent_curr_node, curr_node_child_idx)),
              Append(steps, "borrow_right"))
    ELSE IF merges_with_left(curr_node_child_idx, last_idx)
    THEN IF curr_node_child_idx = 0
         THEN Fail(<<t>>, "UnboundLocalError")
         ELSE fix_remove(ord,
                         SetAt(t, parent_loc, merge(parent_curr_node, curr_node_child_idx - 1)),
                         path, curr_node_idx_in_path - 1, Append(steps, "merge_left"))
    ELSE fix_remove(ord,
                    SetAt(t, parent_loc, merge(parent_curr_node, curr_node_child_idx)),
                    path, curr_node_idx_in_path - 1, Append(steps, "merge_right"))

\* the deletion of the key at key_idx of the node at target_loc, before repair
delete_key(t, found) ==
    LET target_loc == SliceFrom(found.path, 1)
        target_node == NodeAt(t, target_loc)
    IN
    IF is_internal(target_node)
    THEN LET path == successor_path(target_node.children[found.key_idx + 2],
                                    Append(found.path, found.key_idx + 1))
             leaf_loc == SliceFrom(path, 1)
             leaf == NodeAt(t, leaf_loc)
             swapped == SetAt(t, target_loc,
                              [target_node EXCEPT !.keys =
                                   ListSet(@, found.key_idx, leaf.keys[1])])
         IN [tree |-> SetAt(swapped, leaf_loc, [leaf EXCEPT !.keys = ListDel(@, 0)]),
             path |-> path, steps |-> <<"successor">>]
    ELSE [tree |-> SetAt(t, target_loc,
                         [target_node EXCEPT !.keys = ListDel(@, found.key_idx)]),
          path |-> found.path, steps |-> << >>]

remove(ord, rt, key) ==
    IF is_none(key) THEN Fail(rt, "ValueError")
    ELSE IF rt = None THEN Fail(rt, "ValueError")
    ELSE LET found == remove_path(rt[1], key, <<NoIdx>>) IN
         IF ~found.found THEN Fail(rt, "ValueError")
         ELSE LET deleted == delete_key(rt[1], found) IN
              fix_remove(ord, deleted.tree, deleted.path, Len(deleted.path) - 1,
                         deleted.steps)

\* ---------------------------------------------------------------- state
RECURSIVE bulk_insert(_, _, _)
\* for k in keys: tree.insert(k)
bulk_insert(ord, rt, keys) ==
    IF keys = << >> THEN rt
    ELSE bulk_insert(ord, insert(ord, rt, Head(keys)).root, Tail(keys))

Ascending(n) == [i \in 1..n |-> i]
Descending(n) == [i \in 1..n |-> n + 1 - i]
Evens(n) == [i \in 1..n |-> 2 * i]

\* BTree(order)
Init ==
    /\ order \in Orders
    /\ root = None
    /\ present = {}
    /\ lastOp = "init"
    /\ lastKey = NoKey
    /\ outcome = Returned("None")
    /\ repairs = << >>
    /\ budget = 0

\* BTree(order) filled with 1..n in ascending or in descending order
InitLoaded ==
    /\ order \in Orders
    /\ \E n \in 0..MaxLoad : \E keys \in {Ascending(n), Descending(n)} :
          /\ root = bulk_insert(order, None, keys)
          /\ present = 1..n
    /\ lastOp = "init"
    /\ lastKey = NoKey
    /\ outcome = Returned("None")
    /\ repairs = << >>
    /\ budget = MaxEdits

\* tree.search(k)
Search(k) ==
    /\ lastOp' = "search"
    /\ lastKey' = k
    /\ outcome' = search(root, k)
    /\ repairs' = << >>
    /\ UNCHANGED <<order, root, present>>

\* tree.insert(k) for None or a key the caller has not inserted yet
Insert(k) ==
    /\ k \notin present
    /\ LET r == insert(order, root, k) IN
       /\ root' = r.root
       /\ outcome' = IF r.kind = "ok" THEN Returned("ok") ELSE Raised(r.kind)
       /\ repairs' = r.steps
       /\ present' = IF r.kind = "ok" THEN present \cup {k} ELSE present
    /\ lastOp' = "insert"
    /\ lastKey' = k
    /\ UNCHANGED order

\* tree.remove(k), for any key
Remove(k) ==
    LET r == remove(order, root, k) IN
    /\ root' = r.root
    /\ present' = IF r.kind = "ok" THEN present \ {k} ELSE present
    /\ lastOp' = "remove"
    /\ lastKey' = k
    /\ outcome' = IF r.kind = "ok" THEN Returned("ok") ELSE Raised(r.kind)
    /\ repairs' = r.steps
    /\ UNCHANGED order

Next ==
    /\ UNCHANGED budget
    /\ \/ \E k \in Keys \cup {NoKey} : Insert(k)
       \/ \E k \in Keys \cup {NoKey} : Remove(k)
       \/ \E k \in Keys \cup {NoKey} : Search(k)

Spec == Init /\ [][Next]_vars

NextLoaded ==
    /\ budget > 0
    /\ budget' = budget - 1
    /\ \/ \E k \in LoadedKeys : Insert(k)
       \/ \E k \in LoadedKeys : Remove(k)
       \/ \E k \in LoadedKeys : Search(k)

SpecLoaded == InitLoaded /\ [][NextLoaded]_vars

\* a caller that only inserts, the keys in any order
NextInserts ==
    /\ UNCHANGED budget
    /\ \E k \in Keys : Insert(k)

SpecInserts == Init /\ [][NextInserts]_vars

\* BTree(order) filled with 1..n or with 2, 4, .., 2n in ascending order, as
\* the scenario tests arrange it; the scenario is one call on that tree
InitScenario ==
    /\ order \in ScenarioOrders
    /\ \E n \in 0..MaxScenarioLoad : \E keys \in {Ascending(n), Evens(n)} :
          /\ root = bulk_insert(order, None, keys)
          /\ present = {keys[i] : i \in 1..n}
    /\ lastOp = "init"
    /\ lastKey = NoKey
    /\ outcome = Returned("None")
    /\ repairs = << >>
    /\ budget = 1

NextScenario ==
    /\ budget > 0
    /\ budget' = budget - 1
    /\ \/ \E k \in ScenarioKeys : Insert(k)
       \/ \E k \in ScenarioKeys : Remove(k)
       \/ \E k \in ScenarioKeys : Search(k)

SpecScenario == InitScenario /\ [][NextScenario]_vars

\* tree.insert(k) for a key the tree holds already
InsertAgain(k) ==
    /\ k \in present
    /\ LET r == insert(order, root, k) IN
       /\ root' = r.root
       /\ outcome' = IF r.kind = "ok" THEN Returned("ok") ELSE Raised(r.kind)
       /\ repairs' = r.steps
    /\ lastOp' = "insert"
    /\ lastKey' = k
    /\ UNCHANGED <<order, present>>

\* the scenario tree, and one insert of a key it holds
NextDuplicate ==
    /\ budget > 0
    /\ budget' = budget - 1
    /\ \E k \in ScenarioKeys : InsertAgain(k)

SpecDuplicate == InitScenario /\ [][NextDuplicate]_vars

\* a consumer that resumes the traversal where the last consumer stopped
traverse_resumed(rt, n) ==
    LET keys == tree_traverse_inorder(rt)
        rest == IF lastOp = "traverse" THEN SliceFrom(keys, Len(outcome.path))
                ELSE keys
    IN [kind |-> IF n > Len(rest) THEN "exhausted" ELSE "suspended",
        path |-> Slice(rest, 0, n)]

\* the keys a consumer gets that asks a new generator tree.traverse_inorder()
\* for n keys, and whether the generator ended on the way
traverse_consumed(rt, n) ==
    LET keys == tree_traverse_inorder(rt)
    IN [kind |-> IF n > Len(keys) THEN "exhausted" ELSE "suspended",
        path |-> Slice(keys, 0, n)]

\* n calls of next() on tree.traverse_inorder()
Traverse(n) ==
    /\ lastOp' = "traverse"
    /\ lastKey' = NoKey
    /\ outcome' = traverse_consumed(root, n)
    /\ repairs' = << >>
    /\ UNCHANGED <<order, root, present>>

\* a caller that inserts, searches and traverses
NextReads ==
    /\ UNCHANGED budget
    /\ \/ \E k \in Keys : Insert(k)
       \/ \E k \in Keys : Search(k)
       \/ \E n \in 0..(MaxKey + 1) : Traverse(n)

SpecReads == Init /\ [][NextReads]_vars

\* ------------------------------------------------------- observations
RECURSIVE Subtree(_)
\* every node of the tree under node
Subtree(node) ==
    {node} \cup UNION {Subtree(node.children[i]) : i \in DOMAIN node.children}

\* every node of the tree but the root
NonRootNodes == IF root = None THEN {}
                ELSE UNION {Subtree(root[1].children[i]) : i \in DOMAIN root[1].children}

AllNodes == IF root = None THEN {} ELSE Subtree(root[1])

RECURSIVE LeafDepths(_, _)
\* the depths of the leaves under node, node being at depth d
LeafDepths(node, d) ==
    IF is_leaf(node) THEN {d}
    ELSE UNION {LeafDepths(node.children[i], d + 1) : i \in DOMAIN node.children}

SeqRange(s) == {s[i] : i \in DOMAIN s}

RECURSIVE SortedSeq(_)
\* the elements of the set S of numbers in ascending order
SortedSeq(S) ==
    IF S = {} THEN << >>
    ELSE LET least == CHOOSE x \in S : \A y \in S : x <= y
         IN <<least>> \o SortedSeq(S \ {least})

StrictlyAscending(s) == \A i \in 1..(Len(s) - 1) : s[i] < s[i + 1]

Did(step) == \E i \in DOMAIN repairs : repairs[i] = step

Height == IF root = None THEN 0 ELSE Len(successor_path(root[1], <<NoIdx>>))

\* the height as a count of edges from the root down to a leaf (a root over
\* internal nodes over leaves has height 2); a tree without a root has no edge
EdgeHeight == IF root = None THEN 0 ELSE Height - 1

\* the key deleted and the path recorded by remove(key), before the repair
Removal(key) == delete_key(root[1], remove_path(root[1], key, <<NoIdx>>))

\* the repair steps proper: the i-th is made on the node at position
\* Len(path) - i of the path
RepairSteps(steps) ==
    IF steps # << >> /\ steps[1] = "successor" THEN Tail(steps) ELSE steps

\* the parent of the node at position j >= 1 of the path of the removal d, and
\* the index of that node in the parent's children; the repairs below position
\* j change neither the number of the parent's children nor the node's siblings
PathParent(d, j) == NodeAt(d.tree, Slice(d.path, 1, j))
PathChildIdx(d, j) == d.path[j + 1]
PathLeaf(d) == NodeAt(d.tree, SliceFrom(d.path, 1))

HasBothSiblings(d, j) ==
    /\ PathChildIdx(d, j) > 0
    /\ PathChildIdx(d, j) < Len(PathParent(d, j).children) - 1

\* some node of nodes has the children a and b next to each other, with the
\* key sep between them
Adjacent(nodes, a, sep, b) ==
    \E n \in nodes : \E p \in 1..(Len(n.children) - 1) :
        n.children[p] = a /\ n.keys[p] = sep /\ n.children[p + 1] = b

RECURSIVE SameButKeysAt(_, _, _)
\* the trees under a and b differ at most in the keys of the node at loc
SameButKeysAt(a, b, loc) ==
    IF loc = << >> THEN a.children = b.children
    ELSE /\ a.keys = b.keys
         /\ Len(a.children) = Len(b.children)
         /\ Head(loc) + 1 \in DOMAIN a.children
         /\ \A c \in DOMAIN a.children :
               IF c = Head(loc) + 1
               THEN SameButKeysAt(a.children[c], b.children[c], Tail(loc))
               ELSE a.children[c] = b.children[c]

\* ---------------------------------------------------------------- claims

\* C1: search(k) for a non-null key k that is not in the tree raises nothing
\* and returns None, in every tree state (empty, non-empty, emptied).
C1_SearchAbsentReturnsNone ==
    (lastOp = "search" /\ lastKey \in Keys \ present) => outcome.kind = "None"

\* C2 (completeness): the keys yielded by traverse_inorder() are exactly the
\* keys inserted and not since removed, each once.
C2_Completeness ==
    LET yielded == tree_traverse_inorder(root) IN
    /\ SeqRange(yielded) = present
    /\ Len(yielded) = Cardinality(present)

C2_Witness ==
    /\ lastOp = "remove" /\ outcome.kind = "ok"
    /\ Did("successor") /\ Did("collapse")
    /\ Len(tree_traverse_inorder(root)) >= 2

\* C3 (sortedness): traverse_inorder() yields strictly ascending keys.
C3_Sortedness == StrictlyAscending(tree_traverse_inorder(root))

C3_Witness ==
    /\ lastOp = "remove" /\ outcome.kind = "ok"
    /\ (Did("borrow_left") \/ Did("borrow_right"))
    /\ Height >= 2
    /\ Len(tree_traverse_inorder(root)) >= 4

\* C4: search(k) of a key k present in the tree returns a node of the tree
\* whose keys contain k.
C4_SearchPresentFindsNode ==
    (lastOp = "search" /\ lastKey \in present) =>
        /\ outcome.kind = "node"
        /\ lastKey \in SeqRange(NodeAt(root[1], outcome.path).keys)

C4_Witness ==
    /\ lastOp = "search" /\ lastKey \in present
    /\ outcome.kind = "node" /\ Len(outcome.path) = 2

\* C5 (occupancy): after every insert or remove every non-root node holds at
\* least floor((order - 1) / 2) keys.
C5_Occupancy ==
    \A n \in NonRootNodes : Len(n.keys) >= (order - 1) \div 2

C5_Witness ==
    /\ lastOp = "remove" /\ outcome.kind = "ok"
    /\ (Did("merge_left") \/ Did("merge_right"))
    /\ NonRootNodes # {}
    /\ order % 2 = 0

\* C6 (balanced depth): after every insert or remove all leaves are at the
\* same depth.
C6_BalancedDepth ==
    root # None => Cardinality(LeafDepths(root[1], 0)) = 1

C6_Witness ==
    /\ lastOp = "remove" /\ Did("collapse")
    /\ root # None /\ LeafDepths(root[1], 0) = {1}

RECURSIVE InRange(_, _, _)
\* keys of node strictly ascending and strictly between lo and hi, and every
\* child subtree strictly between its neighbouring keys (0 is no bound)
InRange(node, lo, hi) ==
    /\ StrictlyAscending(node.keys)
    /\ \A i \in DOMAIN node.keys :
          /\ (lo # 0 => node.keys[i] > lo)
          /\ (hi # 0 => node.keys[i] < hi)
    /\ \A i \in DOMAIN node.children :
          InRange(node.children[i],
                  IF i > 1 /\ i - 1 <= Len(node.keys) THEN node.keys[i - 1] ELSE lo,
                  IF i <= Len(node.keys) THEN node.keys[i] ELSE hi)

\* C7 (search-tree property): keys of a node strictly ascending, and every key
\* under children[i] strictly between keys[i-1] and keys[i].
C7_SearchTree == root # None => InRange(root[1], 0, 0)

C7_Witness ==
    /\ lastOp = "remove" /\ Did("successor")
    /\ (Did("merge_left") \/ Did("merge_right") \/ Did("borrow_left") \/ Did("borrow_right"))
    /\ Height >= 2

\* C8 (fan-out): after every insert or remove every node holds at most
\* order - 1 keys and at most order children.
C8_FanOut ==
    \A n \in AllNodes : Len(n.keys) <= order - 1 /\ Len(n.children) <= order

C8_Witness ==
    /\ lastOp = "insert" /\ Did("split")
    /\ \E n \in AllNodes : Len(n.keys) = order - 1 /\ Len(n.children) = order

\* C9 (structural consistency): every internal node has len(keys) + 1
\* children, every leaf none.
C9_ChildrenCount ==
    \A n \in AllNodes : is_internal(n) => Len(n.children) = Len(n.keys) + 1

\* a redistribution between two internal nodes, after a merge below them
C9_Witness ==
    /\ lastOp = "remove" /\ outcome.kind = "ok"
    /\ Len(repairs) >= 2
    /\ repairs[Len(repairs)] \in {"borrow_left", "borrow_right"}
    /\ repairs[Len(repairs) - 1] \in {"merge_left", "merge_right"}
    /\ Height >= 3

\* C10: remove(k) of a non-null key k that is not in the tree raises
\* ValueError in every tree state and leaves root and every node unchanged.
C10_RemoveAbsentFails ==
    [][(lastOp' = "remove" /\ lastKey' \in Keys \ present) =>
           (outcome'.kind = "ValueError" /\ root' = root)]_vars

C10_Witness ==
    /\ lastOp = "remove" /\ lastKey \in Keys \ present
    /\ outcome.kind = "ValueError"
    /\ root # None /\ is_internal(root[1])

\* C11: search(None), insert(None) and remove(None) each raise ValueError in
\* every tree state, and the failed call leaves the tree as it was.
C11_NoneKeyFails ==
    [][(lastOp' \in {"search", "insert", "remove"} /\ lastKey' = NoKey) =>
           (outcome'.kind = "ValueError" /\ root' = root /\ present' = present)]_vars

\* insert(None) has failed on a tree of two levels
C11_Witness ==
    /\ lastOp = "insert" /\ lastKey = NoKey
    /\ outcome.kind = "ValueError"
    /\ root # None /\ is_internal(root[1])

\* C12: after every call the root is absent whenever the tree holds no keys: a
\* present root holds at least one key.
C12_RootAbsentWhenEmpty ==
    root # None => Len(root[1].keys) >= 1

Leaf(keys) == BTreeNode(keys, << >>)

\* C13: order 7, insert 1..11 ascending, then remove(9): the root holds [4]
\* over the two leaves [1,2,3] and [5,6,7,8,10,11]; the last leaf was merged
\* with its left sibling and the separator 8.
C13_RemoveNineOfEleven ==
    (/\ order = 7 /\ lastOp = "remove" /\ lastKey = 9
     /\ outcome.kind = "ok" /\ present = (1..11) \ {9})
    => /\ root = <<BTreeNode(<<4>>, <<Leaf(<<1, 2, 3>>), Leaf(<<5, 6, 7, 8, 10, 11>>)>>)>>
       /\ repairs = <<"merge_left">>

C13_Witness ==
    /\ order = 7 /\ lastOp = "remove" /\ lastKey = 9
    /\ outcome.kind = "ok" /\ present = (1..11) \ {9}
    /\ Len(root[1].children) = 2

\* C14: order 5, insert 1..16 ascending, then insert(17): the last leaf and
\* then the full root split, the root ends with two children, the first of
\* them internal, and key order, key ranges, key and children counts and the
\* equal leaf depth hold.
C14_InsertSeventeen ==
    (/\ order = 5 /\ lastOp = "insert" /\ lastKey = 17
     /\ outcome.kind = "ok" /\ present = 1..17)
    => /\ repairs = <<"split", "split_root">>
       /\ Len(root[1].children) = 2
       /\ is_internal(root[1].children[1])
       /\ Height = 3
       /\ C5_Occupancy /\ C6_BalancedDepth /\ C7_SearchTree
       /\ C8_FanOut /\ C9_ChildrenCount

C14_Witness ==
    /\ order = 5 /\ lastOp = "insert" /\ lastKey = 17
    /\ outcome.kind = "ok" /\ present = 1..17
    /\ Did("split_root")

\* C15 (permutation invariance): whatever the order in which a set of
\* distinct keys is inserted into an empty tree, traverse_inorder() yields the
\* same sequence, the sorted key set.
C15_PermutationInvariance ==
    tree_traverse_inorder(root) = SortedSeq(present)

\* the smallest of five or more keys came last, into a tree of two levels or more
C15_Witness ==
    /\ lastOp = "insert" /\ Cardinality(present) >= 5
    /\ \A k \in present : lastKey <= k
    /\ Height >= 2
    /\ Did("split")

\* C20: n distinct keys, 1 <= n <= order - 1, inserted in any order into an
\* empty tree give a single leaf root holding the keys in ascending order.
C20_FewKeysOneLeaf ==
    (present # {} /\ Cardinality(present) <= order - 1)
    => /\ root = <<Leaf(SortedSeq(present))>>
       /\ repairs = << >>

\* order - 1 keys in the root leaf, the smallest of them inserted last
C20_Witness ==
    /\ lastOp = "insert" /\ Cardinality(present) = order - 1
    /\ \A k \in present : lastKey <= k
    /\ root # None /\ is_leaf(root[1])

\* C16 as claimed: an underflowing node without a populous sibling that has a
\* left and a right sibling is merged with the left one; the survivor holds
\* left.keys + [separator] + node.keys, the right sibling and its separator
\* stay.
C16_MergePrefersLeft ==
    [][(lastOp' = "remove" /\ outcome'.kind = "ok") =>
        LET d == Removal(lastKey')
            r == RepairSteps(repairs')
            j == Len(d.path) - 1
        IN \A i \in DOMAIN r :
              (r[i] \in {"merge_left", "merge_right"} /\ HasBothSiblings(d, Len(d.path) - i))
              => /\ r[i] = "merge_left"
                 /\ i = 1 =>
                      LET parent == PathParent(d, j)
                          idx == PathChildIdx(d, j)
                          left == parent.children[idx]
                          right == parent.children[idx + 2]
                      IN Adjacent(AllNodes',
                                  Leaf(left.keys \o <<parent.keys[idx]>> \o PathLeaf(d).keys),
                                  parent.keys[idx + 1], right)
      ]_vars

\* C16 (amended): an underflowing node without a populous sibling that has a
\* left and a right sibling is merged with the right one: the node survives
\* holding node.keys + [separator between node and right sibling] + right.keys,
\* the left sibling and its separator stay.  The left sibling is merged with
\* only when the node is the last child of its parent.
C16_MergeTakesRight ==
    [][(lastOp' = "remove" /\ outcome'.kind = "ok") =>
        LET d == Removal(lastKey')
            r == RepairSteps(repairs')
            j == Len(d.path) - 1
        IN \A i \in DOMAIN r :
              /\ r[i] = "merge_left" =>
                    PathChildIdx(d, Len(d.path) - i)
                        = Len(PathParent(d, Len(d.path) - i).children) - 1
              /\ (r[i] \in {"merge_left", "merge_right"}
                     /\ HasBothSiblings(d, Len(d.path) - i))
                 => /\ r[i] = "merge_right"
                    /\ i = 1 =>
                         LET parent == PathParent(d, j)
                             idx == PathChildIdx(d, j)
                             left == parent.children[idx]
                             right == parent.children[idx + 2]
                         IN Adjacent(AllNodes', left, parent.keys[idx],
                                     Leaf(PathLeaf(d).keys \o <<parent.keys[idx + 1]>>
                                          \o right.keys))
      ]_vars

\* a merge of a leaf that had a left and a right sibling, followed by a merge
\* of its parent, which had a left and a right sibling too: the path to the
\* removed key's place leads through children that are not the first ones
C16_Witness ==
    /\ lastOp = "remove" /\ outcome.kind = "ok"
    /\ repairs = <<"merge_right", "merge_right">>
    /\ Height = 3
    /\ LET path == insert_path(root[1], lastKey, << >>)
       IN Len(path) = 3 /\ path[1] > 0 /\ path[2] > 0

\* C17: an underflowing node with a populous left sibling borrows from the left
\* sibling, whatever the right sibling holds, and from a populous right sibling
\* only otherwise.  With S = left.keys + [separator] + node.keys the left
\* sibling ends with S[0 : len(S)//2], the separator becomes S[len(S)//2], the
\* node ends with the rest, the children are split after the left sibling's
\* keys + 1, the parent keeps its other keys and children, and no repair
\* follows.
C17_BorrowPrefersLeft ==
    [][(lastOp' = "remove" /\ outcome'.kind = "ok") =>
        LET d == Removal(lastKey')
            r == RepairSteps(repairs')
        IN \A i \in DOMAIN r :
            r[i] # "collapse" =>
              LET j == Len(d.path) - i
                  parent == PathParent(d, j)
                  idx == PathChildIdx(d, j)
                  left_populous ==
                      /\ idx > 0
                      /\ Len(parent.children[idx].keys) >= (order - 1) \div 2 + 1
                  right_populous ==
                      /\ idx + 2 <= Len(parent.children)
                      /\ Len(parent.children[idx + 2].keys) >= (order - 1) \div 2 + 1
                  after == NodeAt(root'[1], Slice(d.path, 1, j))
              IN /\ left_populous <=> r[i] = "borrow_left"
                 /\ (~left_populous /\ right_populous) <=> r[i] = "borrow_right"
                 /\ r[i] = "borrow_left" =>
                      LET left == parent.children[idx]
                          new_left == after.children[idx]
                          new_node == after.children[idx + 1]
                          S == new_left.keys \o <<after.keys[idx]>> \o new_node.keys
                          C == new_left.children \o new_node.children
                      IN /\ i = Len(r)
                         /\ Slice(S, 0, Len(left.keys) + 1)
                                = left.keys \o <<parent.keys[idx]>>
                         /\ i = 1 => S = left.keys \o <<parent.keys[idx]>>
                                            \o PathLeaf(d).keys
                         /\ Len(new_left.keys) = Len(S) \div 2
                         /\ Slice(C, 0, Len(left.children)) = left.children
                         /\ Len(C) = IF left.children = << >> THEN 0 ELSE Len(S) + 1
                         /\ Len(new_left.children)
                                = IF left.children = << >> THEN 0
                                  ELSE Len(new_left.keys) + 1
                         /\ Len(after.keys) = Len(parent.keys)
                         /\ Len(after.children) = Len(parent.children)
                         /\ \A c \in DOMAIN parent.keys :
                                c # idx => after.keys[c] = parent.keys[c]
                         /\ \A c \in DOMAIN parent.children :
                                c \notin {idx, idx + 1}
                                => after.children[c] = parent.children[c]
      ]_vars

\* a leaf that borrowed from its left sibling although its right sibling was
\* populous as well
C17_Witness ==
    /\ lastOp = "remove" /\ outcome.kind = "ok"
    /\ repairs = <<"borrow_left">>
    /\ LET path == insert_path(root[1], lastKey, << >>)
           n == Len(path)
       IN /\ n >= 2
          /\ LET parent == NodeAt(root[1], Slice(path, 0, n - 2))
                 idx == path[n - 1]
             IN /\ idx > 0
                /\ idx + 2 <= Len(parent.children)
                /\ Len(parent.children[idx + 2].keys) >= (order - 1) \div 2 + 1

\* C18: an insert never lowers the height and raises it by exactly one iff the
\* root itself is split; a remove never raises the height and lowers it by
\* exactly one iff the root collapses to its sole child; a failed call leaves
\* the height as it was.
C18_HeightChangesAtRoot ==
    [][lastOp' \in {"insert", "remove"} =>
        /\ (lastOp' = "insert" /\ outcome'.kind = "ok") =>
              /\ EdgeHeight' \in {EdgeHeight, EdgeHeight + 1}
              /\ EdgeHeight' = EdgeHeight + 1 <=> Did("split_root")'
        /\ (lastOp' = "remove" /\ outcome'.kind = "ok") =>
              /\ EdgeHeight' \in {EdgeHeight, EdgeHeight - 1}
              /\ EdgeHeight' = EdgeHeight - 1 <=> Did("collapse")'
        /\ outcome'.kind # "ok" => EdgeHeight' = EdgeHeight
      ]_vars

\* a cascade of splits that ended in a split of an internal root
C18_Witness ==
    /\ lastOp = "insert" /\ outcome.kind = "ok"
    /\ Did("split") /\ Did("split_root")
    /\ EdgeHeight = 2

\* the split rule read as a recursive insertion: the nodes that stand in the
\* place of node once key is inserted below it, one node, or the two halves of
\* a node left with ord keys and the key promoted from between them
RECURSIVE SplitRuleInsert(_, _, _)
SplitRuleInsert(ord, node, key) ==
    LET i == Cardinality({p \in DOMAIN node.keys : node.keys[p] < key})
        below == SplitRuleInsert(ord, node.children[i + 1], key)
        grown ==
            IF node.children = << >>
            THEN [keys |-> Slice(node.keys, 0, i) \o <<key>> \o SliceFrom(node.keys, i),
                  children |-> << >>]
            ELSE IF below.split
            THEN [keys |-> Slice(node.keys, 0, i) \o <<below.up>>
                               \o SliceFrom(node.keys, i),
                  children |-> Slice(node.children, 0, i) \o below.nodes
                                   \o SliceFrom(node.children, i + 1)]
            ELSE [keys |-> node.keys,
                  children |-> Slice(node.children, 0, i) \o below.nodes
                                   \o SliceFrom(node.children, i + 1)]
        mid == (ord - 1) \div 2
    IN IF Len(grown.keys) = ord
       THEN [split |-> TRUE,
             up |-> grown.keys[mid + 1],
             nodes |-> << [keys |-> Slice(grown.keys, 0, mid),
                           children |-> Slice(grown.children, 0, mid + 1)],
                          [keys |-> SliceFrom(grown.keys, mid + 1),
                           children |-> SliceFrom(grown.children, mid + 1)] >>]
       ELSE [split |-> FALSE, up |-> NoKey, nodes |-> <<grown>>]

\* the root the split rule gives: a split root is replaced by a new root that
\* holds the promoted key and the two halves
SplitRuleRoot(ord, node, key) ==
    LET top == SplitRuleInsert(ord, node, key)
    IN IF top.split
       THEN [keys |-> <<top.up>>, children |-> top.nodes]
       ELSE top.nodes[1]

\* C19: every insert into a tree with a root yields the tree of the split rule:
\* a node left with order keys is replaced, with mid = (order - 1) // 2, by a
\* left node of keys[0:mid], children[0:mid+1] and a right node of
\* keys[mid+1:], children[mid+1:], keys[mid] goes into the parent at the node's
\* child index between the two, and a split root gives a new root of that one
\* key and those two children.  At order 5 the keys 1..8 inserted in ascending
\* order give the root [3,6] over the leaves [1,2], [4,5], [7,8].
C19_SplitRule ==
    [][(lastOp' = "insert" /\ outcome'.kind = "ok") =>
        /\ root # None => root' = <<SplitRuleRoot(order, root[1], lastKey')>>
        /\ (order = 5 /\ present = 1..7 /\ lastKey' = 8) =>
              root' = <<BTreeNode(<<3, 6>>,
                                  <<Leaf(<<1, 2>>), Leaf(<<4, 5>>), Leaf(<<7, 8>>)>>)>>
      ]_vars

\* at an even order, a key that is not the greatest went in and split a leaf,
\* the nodes above it and the root
C19_Witness ==
    /\ lastOp = "insert" /\ outcome.kind = "ok"
    /\ order \in {4, 6}
    /\ Len(repairs) >= 2
    /\ Did("split_root")
    /\ \E k \in present : k > lastKey

\* C21: an insert whose target leaf ends with at most order - 1 keys, and a
\* remove of a key held in a leaf that keeps at least (order - 1) // 2 keys or
\* is the root, make no repair step and change the keys of that leaf only: the
\* key goes into or out of the leaf, every other node's keys and all children
\* lists stay, and the root stays the root.
C21_NoRepairTouchesOneLeaf ==
    [][(root # None /\ lastKey' # NoKey /\ outcome'.kind = "ok") =>
        /\ lastOp' = "insert" =>
             LET path == insert_path(root[1], lastKey', << >>)
                 loc == Slice(path, 0, Len(path) - 1)
                 leaf == NodeAt(root[1], loc)
             IN Len(leaf.keys) + 1 <= order - 1
                => /\ repairs' = << >>
                   /\ root' # None
                   /\ SameButKeysAt(root[1], root'[1], loc)
                   /\ NodeAt(root'[1], loc).keys
                        = Slice(leaf.keys, 0, path[Len(path)]) \o <<lastKey'>>
                            \o SliceFrom(leaf.keys, path[Len(path)])
        /\ lastOp' = "remove" =>
             LET found == remove_path(root[1], lastKey', <<NoIdx>>)
                 loc == SliceFrom(found.path, 1)
                 leaf == NodeAt(root[1], loc)
             IN (/\ leaf.children = << >>
                 /\ \/ Len(leaf.keys) - 1 >= (order - 1) \div 2
                    \/ loc = << >>)
                => /\ repairs' = << >>
                   /\ root' # None
                   /\ SameButKeysAt(root[1], root'[1], loc)
                   /\ NodeAt(root'[1], loc).keys
                        = Slice(leaf.keys, 0, found.key_idx)
                            \o SliceFrom(leaf.keys, found.key_idx + 1)
      ]_vars

\* a key left a leaf below the root that held one key more than the least a
\* node may hold, and nothing was repaired
C21_Witness ==
    /\ lastOp = "remove" /\ outcome.kind = "ok"
    /\ repairs = << >>
    /\ Height >= 3
    /\ LET path == insert_path(root[1], lastKey, << >>)
       IN Len(NodeAt(root[1], Slice(path, 0, Len(path) - 1)).keys)
              = (order - 1) \div 2

\* C22: when remove(k) finds k at index i of an internal node, the key taken
\* out of a leaf is the first key of the leftmost leaf under children[i+1],
\* which is the least key greater than k; that key is written into slot i in
\* place of k, and the repair starts at that leaf with the path extended down
\* to it: without underflow there the tree is the old one with just these two
\* changes, with underflow a repair step follows.
C22_SuccessorReplaces ==
    [][(lastOp' = "remove" /\ outcome'.kind = "ok") =>
        LET found == remove_path(root[1], lastKey', <<NoIdx>>)
            loc == SliceFrom(found.path, 1)
            node == NodeAt(root[1], loc)
            i == found.key_idx
        IN node.children # << >> =>
           LET leaf_loc == loc \o <<i + 1>>
                               \o [j \in 1..(EdgeHeight - Len(loc) - 1) |-> 0]
               leaf == NodeAt(root[1], leaf_loc)
               successor == leaf.keys[1]
               swapped == SetAt(root[1], loc,
                                [node EXCEPT !.keys[i + 1] = successor])
               cut == SetAt(swapped, leaf_loc, [leaf EXCEPT !.keys = Tail(@)])
               fixed == fix_remove(order, cut, <<NoIdx>> \o leaf_loc,
                                   Len(leaf_loc), <<"successor">>)
           IN /\ leaf.children = << >>
              /\ successor \in present /\ successor > lastKey'
              /\ \A x \in present : x > lastKey' => successor <= x
              /\ root' = fixed.root
              /\ repairs' = fixed.steps
              /\ Len(leaf.keys) - 1 >= (order - 1) \div 2 => root' = <<cut>>
              /\ Len(leaf.keys) - 1 < (order - 1) \div 2 => Len(repairs') >= 2
      ]_vars

\* a key of the root of a tree of three levels was replaced by its successor,
\* which still is in the root, and the successor's leaf was repaired
C22_Witness ==
    /\ lastOp = "remove" /\ outcome.kind = "ok"
    /\ Len(repairs) >= 2 /\ repairs[1] = "successor"
    /\ Height >= 3
    /\ \E successor \in present :
          /\ successor > lastKey
          /\ \A x \in present : x > lastKey => successor <= x
          /\ search(root, successor) = Found(<< >>)

\* C23: a leaf left underflowing is repaired, and when a merge leaves the
\* parent, not the root, underflowing with no populous sibling, the same call
\* merges the parent too, level by level; a merge that leaves the parent with
\* enough keys ends the repair.  At order 5 with 1..26 inserted in ascending
\* order, remove(25) takes one key from the root, leaves the root's last child
\* with 4 keys, and the structural invariants hold.
C23_MergeCascade ==
    [][(lastOp' = "remove" /\ outcome'.kind = "ok") =>
        LET d == Removal(lastKey')
            r == RepairSteps(repairs')
            least == (order - 1) \div 2
        IN /\ (Len(d.path) >= 2 /\ Len(PathLeaf(d).keys) < least) => r # << >>
           /\ \A i \in DOMAIN r :
                (r[i] \in {"merge_left", "merge_right"} /\ Len(d.path) - i >= 2) =>
                   LET j == Len(d.path) - i
                       parent == PathParent(d, j)
                       above == PathParent(d, j - 1)
                       idx == PathChildIdx(d, j - 1)
                       populous_sibling ==
                           \E c \in {idx, idx + 2} \cap DOMAIN above.children :
                               Len(above.children[c].keys) >= least + 1
                   IN /\ (Len(parent.keys) - 1 < least /\ ~populous_sibling)
                         => /\ i + 1 \in DOMAIN r
                            /\ r[i + 1] \in {"merge_left", "merge_right"}
                      /\ Len(parent.keys) - 1 >= least => i = Len(r)
           /\ (order = 5 /\ present = 1..26 /\ lastKey' = 25) =>
                /\ Len(root'[1].keys) = Len(root[1].keys) - 1
                /\ Len(root'[1].children[Len(root'[1].children)].keys) = 4
                /\ C5_Occupancy' /\ C6_BalancedDepth' /\ C7_SearchTree'
                /\ C8_FanOut' /\ C9_ChildrenCount'
      ]_vars

\* 25 left the tree of order 5 that held 1..26: its leaf was merged, and then
\* the leaf's parent
C23_Witness ==
    /\ order = 5 /\ lastOp = "remove" /\ lastKey = 25
    /\ outcome.kind = "ok" /\ present = (1..26) \ {25}
    /\ Len(repairs) = 2
    /\ \A i \in DOMAIN repairs : repairs[i] \in {"merge_left", "merge_right"}
    /\ Height = 3

\* C24: insert(k) of a key the tree holds completes without error, and the
\* in-order traversal afterwards is the one before with a second k right next
\* to the first, so it is no longer strictly ascending.
C24_DuplicateAccepted ==
    [][(lastOp' = "insert" /\ lastKey' \in present) =>
        LET before == tree_traverse_inorder(root)
            after == tree_traverse_inorder(root')
        IN /\ outcome'.kind = "ok"
           /\ \E p \in DOMAIN before :
                 /\ before[p] = lastKey'
                 /\ after = SubSeq(before, 1, p) \o <<lastKey'>>
                                \o SubSeq(before, p + 1, Len(before))
                 /\ after[p] = after[p + 1]
           /\ ~StrictlyAscending(after)
      ]_vars

\* a key held by an internal node went in a second time and split a leaf
C24_Witness ==
    /\ lastOp = "insert" /\ outcome.kind = "ok"
    /\ Len(tree_traverse_inorder(root)) = Cardinality(present) + 1
    /\ Did("split")
    /\ \E n \in AllNodes :
          /\ n.children # << >>
          /\ \E p \in DOMAIN n.keys : n.keys[p] = lastKey

TypeOK ==
    /\ order \in Orders \cup ScenarioOrders
    /\ Len(root) <= 1
    /\ present \subseteq Keys \cup LoadedKeys \cup ScenarioKeys

\* _fix_remove never reads left_sibling (line 344) before binding it: an
\* underflowing node that is its parent's last child is never its only child
NoUnbound == outcome.kind # "UnboundLocalError"
====
